---- MODULE Spec2Model ----
(***************************************************************************)
(* A model of the Gerrit remote provider (src/git/remotes/gerrit.ts) and   *)
(* of the remote provider picker (src/quickpicks/remoteProviderPicker.ts). *)
(*                                                                         *)
(* Strings are sequences of one-character strings; indices into them are   *)
(* 0-based, as in JavaScript.  An optional value is a sequence of length   *)
(* at most one: << >> is undefined, <<v>> is the value v.                  *)
(***************************************************************************)
EXTENDS Integers, Sequences, FiniteSets, TLC

VARIABLES
    domain,        \* this.domain of the GerritRemote
    providerPath,  \* this.path of the GerritRemote (the project)
    repository,    \* [branches, tags, files]: what the Repository answers
    uri,           \* the Uri handed to getLocalInfoFromRemoteUri
    validate,      \* options?.validate: "undefined", "true" or "false"
    pc,            \* position in getLocalInfoFromRemoteUri
    startLine,     \* the local startLine (optional number)
    index,         \* the local index
    result,        \* the value returned (optional {uri, startLine})
    calls,         \* [getBranches, getTags, has, toAbsoluteUri]: calls made so far
    request,       \* the arguments of a getUrlForFile / getUrlForCommit call
    url,           \* the URL that call returned (optional string)
    args,          \* the arguments of RemoteProviderPicker.show: [remotes, resource, autoPick, clipboard, setDefault]
    defaultRemote, \* the name of the remote persisted as the default one, or "none"
    showPc,        \* position in RemoteProviderPicker.show
    items,         \* the local items
    quickpick,     \* the list widget: [state, items, placeholder, activeItems]
    listeners,     \* the event subscriptions in disposables that are not disposed
    pick,          \* the promise awaited at line 193: [settled, value, resolves]
    showResult,    \* what show returned (optional item)
    pending,       \* the items whose setAsDefault() was called and has not finished
    execute,       \* the activation of the item show returned: [pc, resource]
    effects        \* the calls made on the outside: [copy, open, openExternal, setAsDefault, lookups, answers]

\* what one call of getLocalInfoFromRemoteUri is given
env == <<domain, providerPath, repository, uri, validate>>

\* what the URL builders are given and return
built == <<request, url>>

\* one call of getLocalInfoFromRemoteUri or of a URL builder
resolver == <<env, pc, startLine, index, result, calls, built>>

\* one call of RemoteProviderPicker.show, and what follows from it
picker == <<args, defaultRemote, showPc, items, quickpick, listeners, pick, showResult, pending, execute, effects>>

vars == <<resolver, picker>>

----------------------------------------------------------------------------
(* Bounds *)

\* longest remainder (the text after /refs/heads/, /refs/tags/, /<sha>/ or /HEAD/)
MaxLen == 7

\* most branches and tags a repository holds
MaxRefs == 2

\* most labels of a domain
MaxLabels == 4

\* most remotes handed to the picker
MaxRemotes == 2

\* most presses of an item's button during one call of show
MaxTriggers == 2

----------------------------------------------------------------------------
(* JavaScript string primitives used by gerrit.ts *)

Min(a, b) == IF a <= b THEN a ELSE b
Max(a, b) == IF a >= b THEN a ELSE b

SetMin(S) == CHOOSE x \in S : \A y \in S : x <= y
SetMax(S) == CHOOSE x \in S : \A y \in S : x >= y

\* s.startsWith(p)
StartsWith(s, p) == Len(p) <= Len(s) /\ SubSeq(s, 1, Len(p)) = p

\* s.indexOf(c, from) for a one-character c
IndexOf(s, c, from) ==
    LET hits == {i \in Max(from, 0)..(Len(s) - 1) : s[i + 1] = c}
    IN  IF hits = {} THEN -1 ELSE SetMin(hits)

\* s.lastIndexOf(c, from) for a one-character c: from is clamped to 0..length
LastIndexOf(s, c, from) ==
    LET hits == {i \in 0..Min(Max(from, 0), Len(s) - 1) : s[i + 1] = c}
    IN  IF hits = {} THEN -1 ELSE SetMax(hits)

\* s.substring(start, end): arguments clamped to 0..length and swapped if reversed
Substring(s, start, end) ==
    LET a == Min(Max(start, 0), Len(s))
        b == Min(Max(end, 0), Len(s))
    IN  SubSeq(s, Min(a, b) + 1, Max(a, b))

\* s.substr(start): a negative start counts from the end
Substr(s, start) ==
    LET a == IF start < 0 THEN Max(Len(s) + start, 0) ELSE Min(start, Len(s))
    IN  SubSeq(s, a + 1, Len(s))

Digits == <<"0", "1", "2", "3", "4", "5", "6", "7", "8", "9">>

IsDigit(c) == \E d \in 1..10 : Digits[d] = c

DigitValue(c) == (CHOOSE d \in 1..10 : Digits[d] = c) - 1

\* parseInt(s, 10) for a string of decimal digits
RECURSIVE ParseInt(_)
ParseInt(s) ==
    IF s = << >> THEN 0
    ELSE 10 * ParseInt(SubSeq(s, 1, Len(s) - 1)) + DigitValue(s[Len(s)])

----------------------------------------------------------------------------
(* Regular expressions and constants of gerrit.ts *)

\* the regular expression without its $: the leading digits
RangeRegexUnanchored(s) ==
    LET others == {i \in 1..Len(s) : ~IsDigit(s[i])}
        digits == IF others = {} THEN s ELSE SubSeq(s, 1, SetMin(others) - 1)
    IN  IF digits # << >> THEN <<digits>> ELSE << >>

\* rangeRegex = /^(\d+)$/ : the captured digits, or << >> (null) when no match
RangeRegexExec(s) ==
    IF s # << >> /\ \A i \in 1..Len(s) : IsDigit(s[i]) THEN <<s>> ELSE << >>

\* fileRegex = /^\/([^/]+)\/\+(.+)$/i : the second capture group, or << >> (null)
FileRegexExec(s) ==
    LET slash == IndexOf(s, "/", 1)
    IN  IF /\ Len(s) >= 1
           /\ s[1] = "/"
           /\ slash >= 2
           /\ Len(s) >= slash + 3
           /\ s[slash + 2] = "+"
        THEN <<Substr(s, slash + 2)>>
        ELSE << >>

RefsHeads == <<"/", "r", "e", "f", "s", "/", "h", "e", "a", "d", "s", "/">>
RefsTags == <<"/", "r", "e", "f", "s", "/", "t", "a", "g", "s", "/">>
HEAD == <<"H", "E", "A", "D">>
Slash == <<"/">>

HexDigits == {"0", "1", "2", "3", "4", "5", "6", "7", "8", "9", "a", "b", "c", "d", "e", "f"}

\* a commit id
Sha == [i \in 1..40 |-> "a"]

\* GitRevision.isSha: forty hexadecimal digits
IsSha(s) == Len(s) = 40 /\ \A i \in 1..Len(s) : s[i] \in HexDigits

----------------------------------------------------------------------------
(* RemoteProvider, the base class of GerritRemote, and the Uri of vscode *)

Protocol == <<"h", "t", "t", "p", "s">>

\* encodeURI(s).replace(/#/g, '%23'), for the characters of the model
RECURSIVE EncodeUrl(_)
EncodeUrl(s) ==
    IF s = << >> THEN << >>
    ELSE (CASE s[1] = "#" -> <<"%", "2", "3">>
            [] s[1] = "%" -> <<"%", "2", "5">>
            [] s[1] = " " -> <<"%", "2", "0">>
            [] OTHER -> <<s[1]>>) \o EncodeUrl(Tail(s))

\* the percent-decoding Uri.parse applies to each component
RECURSIVE PercentDecode(_)
PercentDecode(s) ==
    IF s = << >> THEN << >>
    ELSE IF Len(s) >= 3 /\ SubSeq(s, 1, 3) = <<"%", "2", "3">> THEN <<"#">> \o PercentDecode(SubSeq(s, 4, Len(s)))
    ELSE IF Len(s) >= 3 /\ SubSeq(s, 1, 3) = <<"%", "2", "5">> THEN <<"%">> \o PercentDecode(SubSeq(s, 4, Len(s)))
    ELSE IF Len(s) >= 3 /\ SubSeq(s, 1, 3) = <<"%", "2", "0">> THEN <<" ">> \o PercentDecode(SubSeq(s, 4, Len(s)))
    ELSE <<s[1]>> \o PercentDecode(Tail(s))

\* the index of the first character of s at or after from that is in cs, or the length
FirstOf(s, cs, from) ==
    LET hits == {i \in from..(Len(s) - 1) : s[i + 1] \in cs}
    IN  IF hits = {} THEN Len(s) ELSE SetMin(hits)

\* Uri.parse(s) for scheme://authority/path#fragment, each component decoded
UriParse(s) ==
    LET colon == IndexOf(s, ":", 0)
        hasAuthority == Substring(s, colon + 1, colon + 3) = <<"/", "/">>
        authorityStart == IF hasAuthority THEN colon + 3 ELSE colon + 1
        authorityEnd == IF hasAuthority THEN FirstOf(s, {"/", "?", "#"}, authorityStart) ELSE authorityStart
        pathEnd == FirstOf(s, {"?", "#"}, authorityEnd)
        hash == FirstOf(s, {"#"}, pathEnd)
    IN  [authority |-> PercentDecode(Substring(s, authorityStart, authorityEnd)),
         path |-> PercentDecode(Substring(s, authorityEnd, pathEnd)),
         fragment |-> PercentDecode(Substr(s, hash + 1))]

\* String(n) for a number n >= 0
RECURSIVE ToDecimal(_)
ToDecimal(n) ==
    IF n < 10 THEN <<Digits[n + 1]>> ELSE ToDecimal(n \div 10) \o <<Digits[(n % 10) + 1]>>

\* s.split(c) for a one-character c
RECURSIVE Split(_, _)
Split(s, c) ==
    LET i == IndexOf(s, c, 0)
    IN  IF i = -1 THEN <<s>> ELSE <<Substring(s, 0, i)>> \o Split(Substr(s, i + 1), c)

\* parts.join(c), an undefined part joining as the empty string
RECURSIVE Join(_, _)
Join(parts, c) ==
    IF parts = << >> THEN << >>
    ELSE IF Len(parts) = 1 THEN parts[1]
    ELSE parts[1] \o <<c>> \o Join(Tail(parts), c)

\* this.baseUrl
BaseUrl == Protocol \o <<":", "/", "/">> \o domain \o Slash \o providerPath

----------------------------------------------------------------------------
(* The URL builders of GerritRemote *)

\* a destructured array element: undefined (joined as the empty string) past the end
ElementAt(parts, i) == IF i <= Len(parts) THEN parts[i] ELSE << >>

\* lines 44-47
ReviewDomain ==
    LET parts == Split(domain, ".")
        subdomain == ElementAt(parts, 1)
        secondLevelDomain == ElementAt(parts, 2)
        topLevelDomain == ElementAt(parts, 3)
    IN  Join(<<subdomain \o <<"-", "r", "e", "v", "i", "e", "w">>, secondLevelDomain, topLevelDomain>>, ".")

\* lines 49-51
BaseReviewUrl == Protocol \o <<":", "/", "/">> \o ReviewDomain

\* lines 136-138
GetUrlForBranch(branch) ==
    EncodeUrl(BaseUrl \o <<"/", "+">> \o RefsHeads \o branch)

\* lines 140-142
GetUrlForCommit(sha) ==
    EncodeUrl(BaseReviewUrl \o <<"/", "q", "/">> \o sha)

\* lines 144-150; an absent branch, sha or range is << >>
GetUrlForFile(fileName, branch, sha, range) ==
    LET line == IF range # << >> THEN <<"#">> \o ToDecimal(range[1]) ELSE << >>
    IN  IF sha # << >>
        THEN EncodeUrl(BaseUrl \o <<"/", "+", "/">> \o sha \o Slash \o fileName) \o line
        ELSE IF branch # << >>
        THEN EncodeUrl(GetUrlForBranch(branch) \o Slash \o fileName) \o line
        ELSE EncodeUrl(BaseUrl \o <<"/", "+", "/">> \o HEAD \o Slash \o fileName) \o line

----------------------------------------------------------------------------
(* The Repository, as getLocalInfoFromRemoteUri uses it *)

\* GitBranch.getNameWithoutRemote: the name after the remote's name and its "/"
GetNameWithoutRemote(b) ==
    IF b.remote THEN Substr(b.name, IndexOf(b.name, "/", 0) + 1) ELSE b.name

\* the filter left out
BranchesUnfiltered == {GetNameWithoutRemote(b) : b \in repository.branches}

\* new Set((await repository.getBranches({filter: b => b.remote})).map(b => b.getNameWithoutRemote()))
Branches == {GetNameWithoutRemote(b) : b \in {x \in repository.branches : x.remote}}

\* new Set((await repository.getTags()).map(t => t.name))
Tags == repository.tags

\* Uri.joinPath(folder, p), as a path relative to the repository's folder
RECURSIVE RelativePath(_)
RelativePath(p) ==
    IF p # << >> /\ p[1] = "/" THEN RelativePath(Tail(p)) ELSE p

\* repository.toAbsoluteUri(p, {validate: v}): the file's Uri, or << >> when
\* validation is asked for (the default) and the repository has no such file
ToAbsoluteUri(p, v) ==
    IF v = "false" \/ RelativePath(p) \in repository.files
    THEN <<RelativePath(p)>>
    ELSE << >>

----------------------------------------------------------------------------
(* GerritRemote.getLocalInfoFromRemoteUri *)

\* const [, , path] = match
MatchPath == FileRegexExec(uri.path)[1]

\* lines 61-70: the start line read from the fragment
FragmentStartLine(fragment) ==
    IF fragment # << >> /\ RangeRegexExec(fragment) # << >>
    THEN <<ParseInt(RangeRegexExec(fragment)[1])>>
    ELSE << >>

Return(value) ==
    /\ result' = value
    /\ pc' = "done"

\* lines 58-75: the two rejections, the fragment and fileRegex
Enter ==
    /\ pc = "start"
    /\ IF uri.authority # domain
       THEN Return(<< >>) /\ UNCHANGED startLine
       ELSE IF validate # "false" /\ ~StartsWith(uri.path, Slash \o providerPath \o Slash)
       THEN Return(<< >>) /\ UNCHANGED startLine
       ELSE /\ startLine' = FragmentStartLine(uri.fragment)
            /\ IF FileRegexExec(uri.path) = << >>
               THEN Return(<< >>)
               ELSE pc' = "permalink" /\ UNCHANGED result
    /\ UNCHANGED <<env, index, calls, built, picker>>

\* HEAD not taken for a permalink
PermalinkShaOnly ==
    /\ pc = "permalink"
    /\ \E path \in {MatchPath} :
       \E i \in {IndexOf(path, "/", 1)} :
       \E sha \in {Substring(path, 1, i)} :
       \E file \in {Substr(path, i)} :
           /\ index' = i
           /\ IF i # -1 /\ IsSha(sha)
              THEN /\ calls' = [calls EXCEPT !.toAbsoluteUri = Append(@, file)]
                   /\ IF ToAbsoluteUri(file, validate) # << >>
                      THEN Return(<<[uri |-> ToAbsoluteUri(file, validate)[1], startLine |-> startLine]>>)
                      ELSE pc' = "refs" /\ UNCHANGED result
              ELSE pc' = "refs" /\ UNCHANGED <<result, calls>>
    /\ UNCHANGED <<env, startLine, built, picker>>

\* lines 77-85: a path that starts with a sha or HEAD
Permalink ==
    /\ pc = "permalink"
    /\ \E path \in {MatchPath} :
       \E i \in {IndexOf(path, "/", 1)} :
       \E sha \in {Substring(path, 1, i)} :
       \E file \in {Substr(path, i)} :
           /\ index' = i
           /\ IF i # -1 /\ (IsSha(sha) \/ sha = HEAD)
              THEN /\ calls' = [calls EXCEPT !.toAbsoluteUri = Append(@, file)]
                   /\ IF ToAbsoluteUri(file, validate) # << >>
                      THEN Return(<<[uri |-> ToAbsoluteUri(file, validate)[1], startLine |-> startLine]>>)
                      ELSE pc' = "refs" /\ UNCHANGED result
              ELSE pc' = "refs" /\ UNCHANGED <<result, calls>>
    /\ UNCHANGED <<env, startLine, built, picker>>

\* lines 88-96: a path under /refs/heads/ asks for the remote branches
GetBranches ==
    /\ pc = "refs"
    /\ StartsWith(MatchPath, RefsHeads)
    /\ calls' = [calls EXCEPT !.getBranches = @ + 1]
    /\ pc' = "heads"
    /\ UNCHANGED <<env, startLine, index, result, built, picker>>

\* the loop left at the first known branch, whether its file is found or not
BranchScanFirstKnown ==
    /\ pc = "heads"
    /\ \E branchPath \in {Substr(MatchPath, Len(RefsHeads))} :
       \E i \in {LastIndexOf(branchPath, "/", index - 1)} :
       \E branch \in {Substring(branchPath, 0, i)} :
       \E file \in {Substr(branchPath, i)} :
           /\ index' = i
           /\ IF branch \in Branches
              THEN /\ calls' = [calls EXCEPT !.has = Append(@, branch),
                                             !.toAbsoluteUri = Append(@, file)]
                   /\ IF ToAbsoluteUri(file, validate) # << >>
                      THEN Return(<<[uri |-> ToAbsoluteUri(file, validate)[1], startLine |-> startLine]>>)
                      ELSE Return(<< >>)
              ELSE /\ calls' = [calls EXCEPT !.has = Append(@, branch)]
                   /\ IF i > 0 THEN UNCHANGED <<pc, result>> ELSE Return(<< >>)
    /\ UNCHANGED <<env, startLine, built, picker>>

\* the loop going on while index >= 0
BranchScanWhileNotNegative ==
    /\ pc = "heads"
    /\ \E branchPath \in {Substr(MatchPath, Len(RefsHeads))} :
       \E i \in {LastIndexOf(branchPath, "/", index - 1)} :
       \E branch \in {Substring(branchPath, 0, i)} :
       \E file \in {Substr(branchPath, i)} :
           /\ index' = i
           /\ IF branch \in Branches
              THEN /\ calls' = [calls EXCEPT !.has = Append(@, branch),
                                             !.toAbsoluteUri = Append(@, file)]
                   /\ IF ToAbsoluteUri(file, validate) # << >>
                      THEN Return(<<[uri |-> ToAbsoluteUri(file, validate)[1], startLine |-> startLine]>>)
                      ELSE IF i >= 0 THEN UNCHANGED <<pc, result>> ELSE Return(<< >>)
              ELSE /\ calls' = [calls EXCEPT !.has = Append(@, branch)]
                   /\ IF i >= 0 THEN UNCHANGED <<pc, result>> ELSE Return(<< >>)
    /\ UNCHANGED <<env, startLine, built, picker>>

\* lines 98-108: one pass of the branch loop
BranchScan ==
    /\ pc = "heads"
    /\ \E branchPath \in {Substr(MatchPath, Len(RefsHeads))} :
       \E i \in {LastIndexOf(branchPath, "/", index - 1)} :
       \E branch \in {Substring(branchPath, 0, i)} :
       \E file \in {Substr(branchPath, i)} :
           /\ index' = i
           /\ IF branch \in Branches
              THEN /\ calls' = [calls EXCEPT !.has = Append(@, branch),
                                             !.toAbsoluteUri = Append(@, file)]
                   /\ IF ToAbsoluteUri(file, validate) # << >>
                      THEN Return(<<[uri |-> ToAbsoluteUri(file, validate)[1], startLine |-> startLine]>>)
                      ELSE IF i > 0 THEN UNCHANGED <<pc, result>> ELSE Return(<< >>)
              ELSE /\ calls' = [calls EXCEPT !.has = Append(@, branch)]
                   /\ IF i > 0 THEN UNCHANGED <<pc, result>> ELSE Return(<< >>)
    /\ UNCHANGED <<env, startLine, built, picker>>

\* lines 98-108 as a function: what the branch loop returns for the text branchPath after
\* /refs/heads/, the known names branches and the value idx of index on entry
RECURSIVE BranchLoop(_, _, _)
BranchLoop(branchPath, branches, idx) ==
    LET i == LastIndexOf(branchPath, "/", idx - 1)
        branch == Substring(branchPath, 0, i)
        file == Substr(branchPath, i)
    IN  IF branch \in branches /\ ToAbsoluteUri(file, validate) # << >>
        THEN <<[uri |-> ToAbsoluteUri(file, validate)[1], startLine |-> startLine]>>
        ELSE IF i > 0 THEN BranchLoop(branchPath, branches, i) ELSE << >>

\* lines 77-109 as a function: the result for the path /refs/heads/<branchPath>
BranchCheck(branchPath, branches) ==
    BranchLoop(branchPath, branches, IndexOf(RefsHeads \o branchPath, "/", 1))

\* lines 112-114: a path under /refs/tags/ asks for the tags
GetTags ==
    /\ pc = "refs"
    /\ ~StartsWith(MatchPath, RefsHeads)
    /\ StartsWith(MatchPath, RefsTags)
    /\ calls' = [calls EXCEPT !.getTags = @ + 1]
    /\ pc' = "tags"
    /\ UNCHANGED <<env, startLine, index, result, built, picker>>

\* the tag loop left at the first known tag, whether its file is found or not
TagScanFirstKnown ==
    /\ pc = "tags"
    /\ \E tagPath \in {Substr(MatchPath, Len(RefsTags))} :
       \E i \in {LastIndexOf(tagPath, "/", index - 1)} :
       \E tag \in {Substring(tagPath, 0, i)} :
       \E file \in {Substr(tagPath, i)} :
           /\ index' = i
           /\ IF tag \in Tags
              THEN /\ calls' = [calls EXCEPT !.has = Append(@, tag),
                                             !.toAbsoluteUri = Append(@, file)]
                   /\ IF ToAbsoluteUri(file, validate) # << >>
                      THEN Return(<<[uri |-> ToAbsoluteUri(file, validate)[1], startLine |-> startLine]>>)
                      ELSE Return(<< >>)
              ELSE /\ calls' = [calls EXCEPT !.has = Append(@, tag)]
                   /\ IF i > 0 THEN UNCHANGED <<pc, result>> ELSE Return(<< >>)
    /\ UNCHANGED <<env, startLine, built, picker>>

\* lines 116-126: one pass of the tag loop
TagScan ==
    /\ pc = "tags"
    /\ \E tagPath \in {Substr(MatchPath, Len(RefsTags))} :
       \E i \in {LastIndexOf(tagPath, "/", index - 1)} :
       \E tag \in {Substring(tagPath, 0, i)} :
       \E file \in {Substr(tagPath, i)} :
           /\ index' = i
           /\ IF tag \in Tags
              THEN /\ calls' = [calls EXCEPT !.has = Append(@, tag),
                                             !.toAbsoluteUri = Append(@, file)]
                   /\ IF ToAbsoluteUri(file, validate) # << >>
                      THEN Return(<<[uri |-> ToAbsoluteUri(file, validate)[1], startLine |-> startLine]>>)
                      ELSE IF i > 0 THEN UNCHANGED <<pc, result>> ELSE Return(<< >>)
              ELSE /\ calls' = [calls EXCEPT !.has = Append(@, tag)]
                   /\ IF i > 0 THEN UNCHANGED <<pc, result>> ELSE Return(<< >>)
    /\ UNCHANGED <<env, startLine, built, picker>>

\* line 129: any other path
NoMatch ==
    /\ pc = "refs"
    /\ ~StartsWith(MatchPath, RefsHeads)
    /\ ~StartsWith(MatchPath, RefsTags)
    /\ Return(<< >>)
    /\ UNCHANGED <<env, startLine, index, calls, built, picker>>

----------------------------------------------------------------------------
(* A URL is built, opened in the browser and handed back *)

\* getUrlForFile(request.fileName, request.branch, request.sha, request.range)
GetUrlForFileCall ==
    /\ pc = "build"
    /\ request.kind = "file"
    /\ url' = <<GetUrlForFile(request.fileName, request.branch, request.sha, request.range)>>
    /\ pc' = "open"
    /\ UNCHANGED <<env, startLine, index, result, calls, request, picker>>

\* getUrlForCommit(request.sha)
GetUrlForCommitCall ==
    /\ pc = "build"
    /\ request.kind = "commit"
    /\ url' = <<GetUrlForCommit(request.sha)>>
    /\ pc' = "built"
    /\ UNCHANGED <<env, startLine, index, result, calls, request, picker>>

\* the URL comes back as a Uri, to be resolved by getLocalInfoFromRemoteUri
OpenUrl ==
    /\ pc = "open"
    /\ uri' = UriParse(url[1])
    /\ pc' = "start"
    /\ UNCHANGED <<domain, providerPath, repository, validate, startLine, index, result, calls, built, picker>>

----------------------------------------------------------------------------
(* RemoteProviderPicker.show *)

NoRemote == [name |-> << >>, id |-> "none", hasApi |-> FALSE]

\* new ConfigureCustomRemoteProviderCommandQuickPickItem() (lines 17-20)
ConfigureCustomRemoteProviderCommandQuickPickItem ==
    [kind |-> "configure", remote |-> NoRemote, clipboard |-> FALSE, buttons |-> << >>]

\* new CopyOrOpenRemoteCommandQuickPickItem(r, resource, clipboard, buttons) (lines 30-41);
\* the resource is args.resource for every item
CopyOrOpenRemoteCommandQuickPickItem(r, clipboard, buttons) ==
    [kind |-> "remote", remote |-> r, clipboard |-> clipboard, buttons |-> buttons]

\* r.default, read from the persisted default remote
IsDefault(r) == r.name = defaultRemote

\* remotes.find(r => r.default): the first one, or << >>
Find(remotes) ==
    LET hits == {i \in 1..Len(remotes) : IsDefault(remotes[i])}
    IN  IF hits = {} THEN << >> ELSE <<remotes[SetMin(hits)]>>

\* the default taken for any autoPick that is set, not only for 'default'
RemotesToOfferAnyAutoPick(remotes, autoPick) ==
    IF autoPick # "false" /\ Len(remotes) > 1 /\ Find(remotes) # << >>
    THEN Find(remotes)
    ELSE remotes

\* the default taken only among more than two remotes
RemotesToOfferOverTwo(remotes, autoPick) ==
    IF autoPick = "default" /\ Len(remotes) > 2 /\ Find(remotes) # << >>
    THEN Find(remotes)
    ELSE remotes

\* lines 162-168: the remotes left to choose from
RemotesToOffer(remotes, autoPick) ==
    IF autoPick = "default" /\ Len(remotes) > 1 /\ Find(remotes) # << >>
    THEN Find(remotes)
    ELSE remotes

\* lines 157-179: the items built
ItemsFor(remotes, autoPick, clipboard, setDefault) ==
    IF Len(remotes) = 0
    THEN <<ConfigureCustomRemoteProviderCommandQuickPickItem>>
    ELSE [i \in 1..Len(RemotesToOffer(remotes, autoPick)) |->
            CopyOrOpenRemoteCommandQuickPickItem(
                RemotesToOffer(remotes, autoPick)[i], clipboard,
                IF setDefault THEN <<"SetRemoteAsDefault">> ELSE << >>)]

\* items.length tested in place of remotes.length
AutoPickedByItems(remotes, autoPick) ==
    autoPick # "false" /\ Len(ItemsFor(remotes, autoPick, FALSE, FALSE)) = 1

\* the list skipped for any autoPick that is set
AutoPickedAlways(remotes, autoPick) ==
    autoPick # "false"

\* line 182: the list is skipped
AutoPicked(remotes, autoPick) ==
    autoPick # "false" /\ Len(RemotesToOffer(remotes, autoPick)) = 1

Unsettled == [settled |-> FALSE, value |-> << >>, resolves |-> << >>]

\* resolve(value) by the handler of event: only the first call settles the promise
Resolve(value, event) ==
    pick' = [settled |-> TRUE,
             value |-> IF pick.settled THEN pick.value ELSE value,
             resolves |-> Append(pick.resolves, event)]

\* lines 155-219: from the call to the await of the promise, or to the return of line 182
ShowCall ==
    /\ showPc = "call"
    /\ items' = ItemsFor(args.remotes, args.autoPick, args.clipboard, args.setDefault)
    /\ IF AutoPicked(args.remotes, args.autoPick)
       THEN /\ showResult' = <<items'[1]>>
            /\ showPc' = "returned"
            /\ UNCHANGED <<quickpick, listeners>>
       ELSE /\ listeners' = {"onDidHide", "onDidAccept", "onDidTriggerItemButton"}
            /\ quickpick' = [state |-> "shown",
                             items |-> items',
                             placeholder |-> IF Len(args.remotes) = 0 THEN "No providers found" ELSE "placeHolder",
                             activeItems |-> << >>]
            /\ showPc' = "awaiting"
            /\ UNCHANGED showResult
    /\ UNCHANGED <<args, defaultRemote, pick, pending, execute, effects, resolver>>

\* The continuation of the await at line 193 is a microtask: once the promise is settled it runs
\* before the next event of the list is delivered, so the three events below wait for it.

\* the list is dismissed: quickpick.onDidHide(() => resolve(undefined)) (line 197)
Hide ==
    /\ quickpick.state = "shown"
    /\ "onDidHide" \in listeners
    /\ ~pick.settled
    /\ quickpick' = [quickpick EXCEPT !.state = "hidden"]
    /\ Resolve(<< >>, "onDidHide")
    /\ UNCHANGED <<args, defaultRemote, showPc, items, listeners, showResult, pending, execute, effects, resolver>>

\* the list is accepted with the active items the user has, none or one (lines 198-202)
Accept ==
    /\ quickpick.state = "shown"
    /\ "onDidAccept" \in listeners
    /\ ~pick.settled
    /\ \E active \in {<< >>} \cup {<<quickpick.items[i]>> : i \in 1..Len(quickpick.items)} :
          /\ quickpick' = [quickpick EXCEPT !.activeItems = active]
          /\ IF Len(active) # 0
             THEN Resolve(<<active[1]>>, "onDidAccept")
             ELSE UNCHANGED pick
    /\ UNCHANGED <<args, defaultRemote, showPc, items, listeners, showResult, pending, execute, effects, resolver>>

\* a button of an item is pressed: the handler runs up to its await (lines 203-208);
\* an item is pressed again only once its setAsDefault() has finished
TriggerItemButton ==
    /\ quickpick.state = "shown"
    /\ "onDidTriggerItemButton" \in listeners
    /\ ~pick.settled
    /\ Len(effects.setAsDefault) < MaxTriggers
    /\ \E i \in 1..Len(quickpick.items) :
          /\ quickpick.items[i].buttons # << >>
          /\ i \notin pending
          /\ IF quickpick.items[i].buttons[1] = "SetRemoteAsDefault" /\ quickpick.items[i].kind = "remote"
             THEN /\ pending' = pending \cup {i}
                  /\ effects' = [effects EXCEPT !.setAsDefault = Append(@, quickpick.items[i].remote.name)]
             ELSE UNCHANGED <<pending, effects>>
    /\ UNCHANGED <<args, defaultRemote, showPc, items, quickpick, listeners, pick, showResult, execute, resolver>>

\* remote.setAsDefault(true) of lines 92-94 finishes: the handler goes on to resolve(e.item) (line 209)
SetAsDefaultDone ==
    /\ \E i \in pending :
          /\ pending' = pending \ {i}
          /\ defaultRemote' = items[i].remote.name
          /\ Resolve(<<items[i]>>, "onDidTriggerItemButton")
    /\ UNCHANGED <<args, showPc, items, quickpick, listeners, showResult, execute, effects, resolver>>

\* remote.setAsDefault(true) fails: the handler ends there, with nothing resolved
SetAsDefaultFails ==
    /\ \E i \in pending : pending' = pending \ {i}
    /\ UNCHANGED <<args, defaultRemote, showPc, items, quickpick, listeners, pick, showResult, execute, effects, resolver>>

\* lines 192-227: the executor throws once the listeners are pushed, at quickpick.show(): the
\* promise is rejected, the await throws, the finally block runs and show rejects
ShowThrows ==
    /\ showPc = "call"
    /\ ~AutoPicked(args.remotes, args.autoPick)
    /\ items' = ItemsFor(args.remotes, args.autoPick, args.clipboard, args.setDefault)
    /\ quickpick' = [state |-> "disposed",
                     items |-> items',
                     placeholder |-> IF Len(args.remotes) = 0 THEN "No providers found" ELSE "placeHolder",
                     activeItems |-> << >>]
    /\ listeners' = {}
    /\ showPc' = "threw"
    /\ UNCHANGED <<args, defaultRemote, pick, showResult, pending, execute, effects, resolver>>

\* the finally block without its line 226
ShowReturnKeepsListeners ==
    /\ showPc = "awaiting"
    /\ pick.settled
    /\ showResult' = pick.value
    /\ IF quickpick.state = "shown" /\ "onDidHide" \in listeners
       THEN Resolve(<< >>, "onDidHide")
       ELSE UNCHANGED pick
    /\ quickpick' = [quickpick EXCEPT !.state = "disposed"]
    /\ showPc' = "returned"
    /\ UNCHANGED <<args, defaultRemote, items, listeners, pending, execute, effects, resolver>>

\* lines 221-227: the promise is settled, show returns and the finally block runs;
\* disposing of a list that is still visible hides it first, which the onDidHide listener hears
ShowReturn ==
    /\ showPc = "awaiting"
    /\ pick.settled
    /\ showResult' = pick.value
    /\ IF quickpick.state = "shown" /\ "onDidHide" \in listeners
       THEN Resolve(<< >>, "onDidHide")
       ELSE UNCHANGED pick
    /\ quickpick' = [quickpick EXCEPT !.state = "disposed"]
    /\ listeners' = {}
    /\ showPc' = "returned"
    /\ UNCHANGED <<args, defaultRemote, items, pending, execute, effects, resolver>>

----------------------------------------------------------------------------
(* The item show returned is activated: execute() *)

\* GitBranch.getRemote(name): the text before the first "/"
GetRemote(name) == Substring(name, 0, IndexOf(name, "/", 0))

\* GitBranch.getNameWithoutRemote(name): the text after the first "/"
NameWithoutRemote(name) == Substr(name, IndexOf(name, "/", 0) + 1)

\* lines 45-52: a comparison loses the name of this remote on either side
StripRemote(resource, remote) ==
    [resource EXCEPT
        !.base = IF GetRemote(@) = remote.name THEN NameWithoutRemote(@) ELSE @,
        !.compare = IF GetRemote(@) = remote.name THEN NameWithoutRemote(@) ELSE @]

\* lines 63-66: the pull request's base is the branch found, on this remote
WithBase(resource, branch, remote) ==
    [resource EXCEPT !.branch = branch, !.remote = <<remote.name>>]

\* the provider not looked at
NeedsRevisionAnyProvider(resource, remote) ==
    /\ resource.type = "file"
    /\ resource.branchOrTag # << >>

\* lines 68-70: a file on a branch or tag, for a provider that cannot show branches
NeedsRevision(resource, remote) ==
    /\ resource.type = "file"
    /\ resource.branchOrTag # << >>
    /\ (remote.id = "bitbucket" \/ remote.id = "bitbucket-server")

\* the lookup awaited has answered with answer
Answered(answer) == [effects EXCEPT !.answers = Append(@, answer)]

\* line 89: provider.copy(resource) or provider.open(resource), after the effects e
CopyOrOpenAfter(e, item, resource) ==
    /\ effects' = IF item.clipboard
                  THEN [e EXCEPT !.copy = Append(@, resource)]
                  ELSE [e EXCEPT !.open = Append(@, resource)]
    /\ execute' = [pc |-> "done", resource |-> resource]

CopyOrOpen(item, resource) == CopyOrOpenAfter(effects, item, resource)

\* the lookup name is called and awaited, after the effects e
LookupAfter(e, name, resource) ==
    /\ effects' = [e EXCEPT !.lookups = Append(@, name)]
    /\ execute' = [pc |-> name, resource |-> resource]

Lookup(name, resource) == LookupAfter(effects, name, resource)

\* ConfigureCustomRemoteProviderCommandQuickPickItem.execute (lines 22-26)
ExecuteConfigure ==
    /\ showPc = "returned"
    /\ showResult # << >>
    /\ showResult[1].kind = "configure"
    /\ execute.pc = "idle"
    /\ effects' = [effects EXCEPT !.openExternal = @ + 1]
    /\ execute' = [execute EXCEPT !.pc = "done"]
    /\ UNCHANGED <<args, defaultRemote, showPc, items, quickpick, listeners, pick, showResult, pending, resolver>>

\* CopyOrOpenRemoteCommandQuickPickItem.execute, up to its first await (lines 43-89)
Execute ==
    /\ showPc = "returned"
    /\ showResult # << >>
    /\ showResult[1].kind = "remote"
    /\ execute.pc = "idle"
    /\ \E item \in {showResult[1]} :
       \E resource \in {args.resource} :
           IF resource.type = "comparison"
           THEN CopyOrOpen(item, StripRemote(resource, item.remote))
           ELSE IF resource.type = "createPullRequest"
           THEN IF resource.branch = << >>
                THEN Lookup("getDefaultBranchName", resource)
                ELSE CopyOrOpen(item, WithBase(resource, resource.branch, item.remote))
           ELSE IF NeedsRevision(resource, item.remote)
           THEN Lookup("getBranchesAndOrTags", resource)
           ELSE CopyOrOpen(item, resource)
    /\ UNCHANGED <<args, defaultRemote, showPc, items, quickpick, listeners, pick, showResult, pending, resolver>>

\* the provider asked whether it has an API or not
GetDefaultBranchNameReturnsAnyProvider ==
    /\ execute.pc = "getDefaultBranchName"
    /\ \E branch \in {<< >>, <<"m">>} :
          IF branch = << >>
          THEN LookupAfter(Answered(branch), "getDefaultBranch", execute.resource)
          ELSE CopyOrOpenAfter(Answered(branch), showResult[1],
                               WithBase(execute.resource, branch, showResult[1].remote))
    /\ UNCHANGED <<args, defaultRemote, showPc, items, quickpick, listeners, pick, showResult, pending, resolver>>

\* Container.git.getDefaultBranchName answers with a name or with undefined (lines 56-66, 89)
GetDefaultBranchNameReturns ==
    /\ execute.pc = "getDefaultBranchName"
    /\ \E branch \in {<< >>, <<"m">>} :
          IF branch = << >> /\ showResult[1].remote.hasApi
          THEN LookupAfter(Answered(branch), "getDefaultBranch", execute.resource)
          ELSE CopyOrOpenAfter(Answered(branch), showResult[1],
                               WithBase(execute.resource, branch, showResult[1].remote))
    /\ UNCHANGED <<args, defaultRemote, showPc, items, quickpick, listeners, pick, showResult, pending, resolver>>

\* provider.getDefaultBranch?.() answers with a branch or with undefined (lines 58-66, 89)
GetDefaultBranchReturns ==
    /\ execute.pc = "getDefaultBranch"
    /\ \E name \in {<< >>, <<"d">>} :
          CopyOrOpenAfter(Answered(name), showResult[1],
                          WithBase(execute.resource, name, showResult[1].remote))
    /\ UNCHANGED <<args, defaultRemote, showPc, items, quickpick, listeners, pick, showResult, pending, resolver>>

\* Container.git.getBranchesAndOrTags answers, with a sha first or without (lines 76-89)
GetBranchesAndOrTagsReturns ==
    /\ execute.pc = "getBranchesAndOrTags"
    /\ \E sha \in {<< >>, Sha} :
          IF sha # << >>
          THEN CopyOrOpenAfter(Answered(sha), showResult[1],
                               [execute.resource EXCEPT !.type = "revision", !.sha = sha])
          ELSE CopyOrOpenAfter(Answered(sha), showResult[1], execute.resource)
    /\ UNCHANGED <<args, defaultRemote, showPc, items, quickpick, listeners, pick, showResult, pending, resolver>>

\* an awaited lookup fails: nothing in execute catches it, and execute ends there
LookupThrows ==
    /\ execute.pc \in {"getDefaultBranchName", "getDefaultBranch", "getBranchesAndOrTags"}
    /\ execute' = [execute EXCEPT !.pc = "failed"]
    /\ UNCHANGED <<args, defaultRemote, showPc, items, quickpick, listeners, pick, showResult, pending, effects, resolver>>

----------------------------------------------------------------------------
(* The calls checked: every Uri a browser can hand over, against every small repository *)

Alphabet == {"a", "/"}

\* the strings over Alphabet of length 1..n
Strings(n) == UNION {[1..k -> Alphabet] : k \in 1..n}

\* no empty segment: what git accepts as a ref name and as a file path
WellFormed(s) ==
    /\ s[1] # "/"
    /\ s[Len(s)] # "/"
    /\ \A i \in 1..(Len(s) - 1) : ~(s[i] = "/" /\ s[i + 1] = "/")

\* every well-formed remainder up to MaxLen, and every string at all up to length 3
Remainders == {s \in Strings(MaxLen) : WellFormed(s) \/ Len(s) <= 3}

RefPrefixes == {RefsHeads, RefsTags, Slash \o Sha \o Slash, Slash \o HEAD \o Slash}

ProjectP == <<"p">>
GerritDomain == <<"g", ".", "e", ".", "c">>
OtherDomain == <<"h", ".", "e", ".", "c">>

\* paths that are no /p/+/<ref>/<remainder>
OddPaths ==
    { <<"/", "q", "/", "+", "/">> \o HEAD \o <<"/", "a">>,
      <<"/", "p", "/", "q", "/", "+", "/">> \o HEAD \o <<"/", "a">>,
      <<"/", "p", "/", "+", "/">> \o HEAD,
      <<"/", "p", "/", "+", "/", "r", "e", "f", "s", "/", "h", "e", "a", "d", "s">>,
      <<"/", "p", "/", "a">> }

UriPaths ==
    {Slash \o ProjectP \o <<"/", "+">> \o prefix \o r : prefix \in RefPrefixes, r \in Remainders}
        \cup OddPaths

Fragments == {<< >>, <<"4", "2">>, <<"4", "a">>}

Uris ==
    [authority : {GerritDomain}, path : UriPaths, fragment : Fragments]
        \cup [authority : {OtherDomain}, path : {<<"/", "p", "/", "+", "/">> \o HEAD \o <<"/", "a">>}, fragment : {<< >>}]

NamePool == {<<"a">>, <<"a", "/", "a">>, <<"a", "a", "a", "a", "a">>}
FilePool == {<<"a">>, <<"a", "/", "a">>}

\* the branch origin/<name> of the remote
RemoteBranch(n) == [name |-> <<"o", "/">> \o n, remote |-> TRUE]

\* a branch every repository has, and no remote has
LocalBranch == [name |-> <<"a", "a">>, remote |-> FALSE]

\* up to MaxRefs remote branches and tags, beside the local branch, and any files
Repositories ==
    {[branches |-> {RemoteBranch(n) : n \in B} \cup {LocalBranch}, tags |-> T, files |-> F] :
        B \in SUBSET NamePool, T \in SUBSET NamePool, F \in SUBSET FilePool}

\* the options and the repository of a call; without validation the files are not looked at
Settings ==
    {c \in [repository : Repositories, validate : {"undefined", "false"}] :
        /\ Cardinality(c.repository.branches) - 1 + Cardinality(c.repository.tags) <= MaxRefs
        /\ c.validate = "false" => c.repository.files = {}}

NoResource ==
    [type |-> "none", base |-> << >>, compare |-> << >>, branch |-> << >>, remote |-> << >>,
     branchOrTag |-> << >>, sha |-> << >>]

NoEffects ==
    [copy |-> << >>, open |-> << >>, openExternal |-> 0, setAsDefault |-> << >>,
     lookups |-> << >>, answers |-> << >>]

NoQuickPick == [state |-> "none", items |-> << >>, placeholder |-> "", activeItems |-> << >>]

\* before RemoteProviderPicker.show is called with a
ShowGiven(a) ==
    /\ args = a
    /\ items = << >>
    /\ quickpick = NoQuickPick
    /\ listeners = {}
    /\ pick = Unsettled
    /\ showResult = << >>
    /\ pending = {}
    /\ execute = [pc |-> "idle", resource |-> a.resource]
    /\ effects = NoEffects

\* no picker is in use
PickerIdle ==
    /\ ShowGiven([remotes |-> << >>, resource |-> NoResource, autoPick |-> "false",
                  clipboard |-> FALSE, setDefault |-> TRUE])
    /\ defaultRemote = << >>
    /\ showPc = "idle"

NoRequest == [kind |-> "none", fileName |-> << >>, branch |-> << >>, sha |-> << >>, range |-> << >>]

NoUri == [authority |-> << >>, path |-> << >>, fragment |-> << >>]

NoCalls == [getBranches |-> 0, getTags |-> 0, has |-> << >>, toAbsoluteUri |-> << >>]

Init ==
    /\ domain = GerritDomain
    /\ providerPath = ProjectP
    /\ \E c \in Settings : repository = c.repository /\ validate = c.validate
    /\ uri \in Uris
    /\ pc = "start"
    /\ startLine = << >>
    /\ index = -1
    /\ result = << >>
    /\ calls = NoCalls
    /\ request = NoRequest
    /\ url = << >>
    /\ PickerIdle

Next ==
    \/ Enter
    \/ Permalink
    \/ GetBranches
    \/ BranchScan
    \/ GetTags
    \/ TagScan
    \/ NoMatch

Spec == Init /\ [][Next]_vars

\* the Uris whose loops are followed to their end: paths under /refs/heads/ and /refs/tags/
\* and the odd ones, without fragment
LiveUris ==
    {u \in Uris :
        /\ u.fragment = << >>
        /\ \/ u.path \in OddPaths
           \/ StartsWith(u.path, Slash \o ProjectP \o <<"/", "+">> \o RefsHeads)
           \/ StartsWith(u.path, Slash \o ProjectP \o <<"/", "+">> \o RefsTags)}

\* the provider is constructed and nothing is asked of it yet
InitLive ==
    /\ domain = GerritDomain
    /\ providerPath = ProjectP
    /\ repository = [branches |-> {LocalBranch}, tags |-> {}, files |-> {}]
    /\ validate = "undefined"
    /\ uri = NoUri
    /\ pc = "idle"
    /\ startLine = << >>
    /\ index = -1
    /\ result = << >>
    /\ calls = NoCalls
    /\ request = NoRequest
    /\ url = << >>
    /\ PickerIdle

\* the repositories of those calls hold every file of FilePool or none
LiveSettings == {c \in Settings : c.repository.files \in {{}, FilePool}}

\* getLocalInfoFromRemoteUri(repository, uri, options) is called (lines 53-57)
Call ==
    /\ pc = "idle"
    /\ \E c \in LiveSettings : repository' = c.repository /\ validate' = c.validate
    /\ uri' \in LiveUris
    /\ pc' = "start"
    /\ UNCHANGED <<domain, providerPath, startLine, index, result, calls, built, picker>>

NextLive ==
    \/ Call
    \/ Enter
    \/ Permalink
    \/ GetBranches
    \/ BranchScan
    \/ GetTags
    \/ TagScan
    \/ NoMatch

\* a call of getLocalInfoFromRemoteUri is not left half-way: the repository answers every
\* await, and each step of the function that can be taken is taken
SpecLive == InitLive /\ [][NextLive]_vars /\ WF_vars(NextLive)

----------------------------------------------------------------------------
(* The round trip checked: every URL getUrlForFile builds, resolved again *)

Labels == <<"g", "e", "c", "o", "m">>

\* a domain of n one-letter labels: g, g.e, g.e.c, ...
RECURSIVE DomainOf(_)
DomainOf(n) ==
    IF n = 1 THEN <<Labels[1]>>
    ELSE DomainOf(n - 1) \o <<".", Labels[((n - 1) % Len(Labels)) + 1]>>

Domains == {DomainOf(n) : n \in 1..MaxLabels}

ProviderPaths == {<<"p">>, <<"p", "/", "q">>}

BuildBranches == NamePool \cup {<<"a", "#">>}

\* start lines of the range given to getUrlForFile
StartLines == {0, 42}

FileRequests ==
    [kind : {"file"}, fileName : FilePool, branch : BuildBranches \cup {<< >>},
     sha : {<< >>, Sha}, range : {<< >>} \cup {<<n>> : n \in StartLines}]

CommitRequests ==
    [kind : {"commit"}, fileName : {<< >>}, branch : {<< >>}, sha : {Sha}, range : {<< >>}]

\* the repositories that have nothing but the branch and the file of request r, or lack them
RepositoriesOf(r) ==
    [branches : {{LocalBranch}, {RemoteBranch(r.branch) : b \in {r.branch} \ {<< >>}} \cup {LocalBranch}},
     tags : {{}},
     files : {{}, {r.fileName} \ {<< >>}}]

\* the repository knows the branch of request r and contains its file
Holds(r) ==
    /\ r.branch # << >> => RemoteBranch(r.branch) \in repository.branches
    /\ r.fileName \in repository.files

InitBuild ==
    /\ domain \in Domains
    /\ providerPath \in ProviderPaths
    /\ request \in FileRequests \cup CommitRequests
    /\ repository \in RepositoriesOf(request)
    /\ validate \in {"undefined", "false"}
    /\ uri = NoUri
    /\ url = << >>
    /\ pc = "build"
    /\ startLine = << >>
    /\ index = -1
    /\ result = << >>
    /\ calls = NoCalls
    /\ PickerIdle

NextBuild ==
    \/ GetUrlForFileCall
    \/ GetUrlForCommitCall
    \/ OpenUrl
    \/ Enter
    \/ Permalink
    \/ GetBranches
    \/ BranchScan
    \/ NoMatch

SpecBuild == InitBuild /\ [][NextBuild]_vars

----------------------------------------------------------------------------
(* The picker checked: every small list of remotes, every option, every kind of resource *)

RemotePool ==
    { [name |-> <<"o">>, id |-> "gerrit", hasApi |-> FALSE],
      [name |-> <<"u">>, id |-> "bitbucket", hasApi |-> TRUE],
      [name |-> <<"b">>, id |-> "bitbucket-server", hasApi |-> FALSE] }

\* the lists of up to n different remotes, those of more than two starting with o, u
RemoteLists(n) ==
    {l \in UNION {[1..k -> RemotePool] : k \in 0..n} :
        /\ \A i, j \in 1..Len(l) : i # j => l[i] # l[j]
        /\ Len(l) > 2 => l[1].id = "gerrit" /\ l[2].id = "bitbucket"}

Resources ==
    { [NoResource EXCEPT !.type = "comparison", !.base = <<"o", "/", "m">>, !.compare = <<"u", "/", "t">>],
      [NoResource EXCEPT !.type = "comparison", !.base = <<"m">>, !.compare = <<"o", "/", "t">>],
      [NoResource EXCEPT !.type = "createPullRequest"],
      [NoResource EXCEPT !.type = "createPullRequest", !.branch = <<"m">>],
      [NoResource EXCEPT !.type = "file"],
      [NoResource EXCEPT !.type = "file", !.branchOrTag = <<"t">>],
      [NoResource EXCEPT !.type = "commit", !.sha = Sha] }

ShowArgs ==
    [remotes : RemoteLists(MaxRemotes), resource : Resources, autoPick : {"false", "true", "default"},
     clipboard : BOOLEAN, setDefault : BOOLEAN]

InitPicker ==
    /\ \E a \in ShowArgs : ShowGiven(a)
    /\ defaultRemote \in {<< >>} \cup {r.name : r \in RemotePool}
    /\ showPc = "call"
    /\ domain = GerritDomain
    /\ providerPath = ProjectP
    /\ repository = [branches |-> {}, tags |-> {}, files |-> {}]
    /\ uri = NoUri
    /\ validate = "undefined"
    /\ pc = "idle"
    /\ startLine = << >>
    /\ index = -1
    /\ result = << >>
    /\ calls = NoCalls
    /\ request = NoRequest
    /\ url = << >>

NextPicker ==
    \/ ShowCall
    \/ ShowThrows
    \/ Hide
    \/ Accept
    \/ TriggerItemButton
    \/ SetAsDefaultDone
    \/ SetAsDefaultFails
    \/ ShowReturn
    \/ ExecuteConfigure
    \/ Execute
    \/ GetDefaultBranchNameReturns
    \/ GetDefaultBranchReturns
    \/ GetBranchesAndOrTagsReturns
    \/ LookupThrows

SpecPicker == InitPicker /\ [][NextPicker]_vars

----------------------------------------------------------------------------
(* What the claims speak of *)

\* the path /<this.path>/+<prefix>, which a remainder follows
PathTo(prefix) == Slash \o providerPath \o <<"/", "+">> \o prefix

\* getLocalInfoFromRemoteUri has returned for a Uri of this provider whose path is PathTo(prefix) and more
Resolved(prefix) ==
    /\ pc = "done"
    /\ uri.authority = domain
    /\ StartsWith(uri.path, PathTo(prefix))

\* what follows PathTo(prefix) in the path
RemainderAfter(prefix) == SubSeq(uri.path, Len(PathTo(prefix)) + 1, Len(uri.path))

\* the names of the remote's branches that the repository holds
RemoteBranchNames == {n \in BuildBranches : RemoteBranch(n) \in repository.branches}

\* the file that the text after the first i characters of r names
FileAfter(r, i) == RelativePath(SubSeq(r, i + 1, Len(r)))

\* the places i of r where a "/" ends a name of names and the rest is a file of the repository
GoodSplits(r, names) ==
    {i \in 1..(Len(r) - 1) :
        /\ r[i + 1] = "/"
        /\ SubSeq(r, 1, i) \in names
        /\ (validate = "false" \/ FileAfter(r, i) \in repository.files)}

\* C1: the URL getUrlForFile builds, resolved against a repository with that branch and that
\* file, gives back the file and the start line, for every branch name and every project path
RoundTrip ==
    (pc = "done" /\ request.kind = "file" /\ Holds(request)) =>
        result = <<[uri |-> request.fileName, startLine |-> request.range]>>

\* C2: when some "/"-ended prefix of the remainder after /refs/heads/ is a known remote branch
\* whose rest is a file, a location is returned, and it is the one of the longest such branch
LongestKnownBranchWins ==
    LET r == RemainderAfter(RefsHeads)
        splits == GoodSplits(r, RemoteBranchNames)
    IN  (Resolved(RefsHeads) /\ splits # {}) =>
            /\ result = <<[uri |-> FileAfter(r, SetMax(splits)), startLine |-> startLine]>>
            /\ calls.has[Len(calls.has)] = SubSeq(r, 1, SetMax(splits))

\* a location was returned for the remainder r, split after a "/"-ended prefix that is in names
SplitAtKnownName(r, names) ==
    \E i \in 1..(Len(r) - 1) :
        /\ r[i + 1] = "/"
        /\ SubSeq(r, 1, i) \in names
        /\ result[1].uri = FileAfter(r, i)

\* C3: a location returned for a path under /refs/heads/ (/refs/tags/) comes from a split whose
\* left part is a known remote branch (tag); with no such prefix the result is undefined
OnlyKnownNamesSplit ==
    /\ (Resolved(RefsHeads) /\ result # << >>) =>
            SplitAtKnownName(RemainderAfter(RefsHeads), RemoteBranchNames)
    /\ (Resolved(RefsTags) /\ result # << >>) =>
            SplitAtKnownName(RemainderAfter(RefsTags), repository.tags)

\* C3 happens: a path under /refs/heads/ with a "/" in its remainder and no known prefix,
\* in a repository that has remote branches, resolved to undefined
NoKnownNameNoMatch ==
    /\ Resolved(RefsHeads)
    /\ RemoteBranchNames # {}
    /\ \E i \in 1..(Len(RemainderAfter(RefsHeads)) - 1) : RemainderAfter(RefsHeads)[i + 1] = "/"
    /\ \A i \in 1..(Len(RemainderAfter(RefsHeads)) - 1) :
            SubSeq(RemainderAfter(RefsHeads), 1, i) \notin RemoteBranchNames
    /\ calls.getBranches = 1
    /\ result = << >>

\* the path is PathTo(/<ref>/) and a remainder
PermalinkTo(ref) == Resolved(Slash \o ref \o Slash) /\ Len(RemainderAfter(Slash \o ref \o Slash)) > 0

\* the result of a permalink to ref: the remainder as the file, if the repository has it
PermalinkResult(ref) ==
    LET file == RemainderAfter(Slash \o ref \o Slash)
    IN  /\ calls.getBranches = 0
        /\ calls.getTags = 0
        /\ calls.has = << >>
        /\ calls.toAbsoluteUri = <<Slash \o file>>
        /\ result = IF validate = "false" \/ RelativePath(file) \in repository.files
                    THEN <<[uri |-> RelativePath(file), startLine |-> startLine]>>
                    ELSE << >>

\* C4: after /+/<sha>/ or /+/HEAD/ the rest of the path is the file, as given; the branches and
\* the tags are never asked for, whether the file is found or not
PermalinkNeverScans ==
    /\ PermalinkTo(Sha) => PermalinkResult(Sha)
    /\ PermalinkTo(HEAD) => PermalinkResult(HEAD)

\* C4 happens: a permalink to a commit whose file the repository does not have
PermalinkNotFound ==
    /\ PermalinkTo(Sha)
    /\ repository.branches # {LocalBranch}
    /\ repository.tags # {}
    /\ validate = "undefined"
    /\ result = << >>

RECURSIVE Pow10(_)
Pow10(n) == IF n = 0 THEN 1 ELSE 10 * Pow10(n - 1)

\* the number a string of decimal digits writes
RECURSIVE DecimalValue(_)
DecimalValue(s) ==
    IF s = << >> THEN 0
    ELSE DigitValue(s[1]) * Pow10(Len(s) - 1) + DecimalValue(Tail(s))

AllDigits(s) == s # << >> /\ \A i \in 1..Len(s) : s[i] \in {"0", "1", "2", "3", "4", "5", "6", "7", "8", "9"}

\* the Uri is one getLocalInfoFromRemoteUri rejects at once, whatever its fragment
Rejected ==
    \/ uri.authority # domain
    \/ validate # "false" /\ ~StartsWith(uri.path, Slash \o providerPath \o Slash)
    \/ FileRegexExec(uri.path) = << >>

\* C5: the start line of a location is the number the fragment writes when the fragment is
\* all decimal digits, and absent otherwise; and the fragment never makes the resolution fail
FragmentIsStartLine ==
    /\ [](result # << >> =>
            result[1].startLine =
                IF AllDigits(uri.fragment) THEN <<DecimalValue(uri.fragment)>> ELSE << >>)
    /\ [][(pc = "start" /\ pc' = "done") => Rejected]_vars

\* C5 happens: a location was returned for a Uri whose fragment is not a number
OtherFragmentResolved ==
    /\ pc = "done"
    /\ uri.fragment # << >>
    /\ ~AllDigits(uri.fragment)
    /\ result # << >>
    /\ result[1].startLine = << >>

\* the domain with -review put after its first label
WithReviewLabel(d) ==
    LET dots == {i \in 1..Len(d) : d[i] = "."}
        end == IF dots = {} THEN Len(d) ELSE SetMin(dots) - 1
    IN  SubSeq(d, 1, end) \o <<"-", "r", "e", "v", "i", "e", "w">> \o SubSeq(d, end + 1, Len(d))

\* C6: the review sub-domain, as the URL of a commit shows it, is the domain with -review after
\* its first label and every other label kept, however many labels the domain has
ReviewDomainKeepsLabels ==
    pc = "built" =>
        url = <<Protocol \o <<":", "/", "/">> \o WithReviewLabel(domain) \o <<"/", "q", "/">> \o request.sha>>

\* show has gone past its line 182
Called == showPc \in {"awaiting", "returned"}

\* the list was created and shown
Presented == quickpick.state # "none"

\* the list holds one item for each remote of args.remotes, in their order
OneItemPerRemote ==
    /\ Len(quickpick.items) = Len(args.remotes)
    /\ \A i \in 1..Len(args.remotes) :
            /\ quickpick.items[i].kind = "remote"
            /\ quickpick.items[i].remote = args.remotes[i]

\* C7: with no remotes the list is presented with the configure item as its only item, whatever
\* autoPick is, and neither provider.copy nor provider.open is called, however the call goes on
NoRemotesOneItem ==
    args.remotes = << >> =>
        /\ Called => (Presented /\ quickpick.items = <<ConfigureCustomRemoteProviderCommandQuickPickItem>>)
        /\ effects.copy = << >>
        /\ effects.open = << >>

\* C7 happens: with no remotes and autoPick true the configure item was accepted and activated
NoRemotesConfigureActivated ==
    /\ showPc = "returned"
    /\ args.remotes = << >>
    /\ args.autoPick = "true"
    /\ showResult = <<ConfigureCustomRemoteProviderCommandQuickPickItem>>
    /\ execute.pc = "done"
    /\ effects.openExternal = 1

\* C8 as stated: with no remotes the list is never shown
NoRemotesSkipsList ==
    (showPc # "idle" /\ args.remotes = << >>) => ~Presented

\* C8 as amended: with no remotes show never returns at its line 182; it returns what the
\* promise of the presented list was settled with, by a dismissal or by an acceptance
NoRemotesAlwaysPresented ==
    (showPc = "returned" /\ args.remotes = << >>) =>
        /\ quickpick.state = "disposed"
        /\ pick.settled
        /\ pick.resolves[1] \in {"onDidHide", "onDidAccept"}
        /\ showResult = IF pick.resolves[1] = "onDidHide"
                        THEN << >>
                        ELSE <<ConfigureCustomRemoteProviderCommandQuickPickItem>>

\* C8 as amended happens: with no remotes and autoPick 'default' the list was shown and dismissed
NoRemotesDismissed ==
    /\ showPc = "returned"
    /\ args.remotes = << >>
    /\ args.autoPick = "default"
    /\ pick.resolves[1] = "onDidHide"
    /\ quickpick.state = "disposed"
    /\ showResult = << >>

\* some remote of args.remotes is the default one
SomeDefault == \E i \in 1..Len(args.remotes) : args.remotes[i].name = defaultRemote

\* C9: with autoPick 'default', more than one remote and a default one among them, show returns
\* at once the item of a default remote: no list is created, nothing is subscribed to
DefaultPickedAtOnce ==
    [][(showPc = "call" /\ args.autoPick = "default" /\ Len(args.remotes) > 1 /\ SomeDefault) =>
            /\ showPc' = "returned"
            /\ quickpick' = NoQuickPick
            /\ listeners' = {}
            /\ pick' = Unsettled
            /\ Len(showResult') = 1
            /\ showResult'[1].kind = "remote"
            /\ showResult'[1].remote.name = defaultRemote
            /\ \E i \in 1..Len(args.remotes) : args.remotes[i] = showResult'[1].remote]_vars

\* C9 happens: of two remotes the second is the default one, and show returned its item
SecondRemotePicked ==
    /\ showPc = "returned"
    /\ args.autoPick = "default"
    /\ Len(args.remotes) = 2
    /\ args.remotes[2].name = defaultRemote
    /\ ~Presented
    /\ showResult # << >>
    /\ showResult[1].remote = args.remotes[2]

\* C10: with autoPick false the list is always presented, with one item for each remote given;
\* with autoPick true it is skipped exactly when one remote is given, default or not
AutoPickModes ==
    /\ (Called /\ args.autoPick = "false") =>
            (Presented /\ (args.remotes # << >> => OneItemPerRemote))
    /\ (Called /\ args.autoPick = "true") =>
            /\ ~Presented <=> Len(args.remotes) = 1
            /\ Len(args.remotes) > 1 => OneItemPerRemote

\* C10 happens: with autoPick true, two remotes, one of them the default, are both presented
BothPresented ==
    /\ showPc = "awaiting"
    /\ args.autoPick = "true"
    /\ Len(args.remotes) = 2
    /\ SomeDefault
    /\ quickpick.state = "shown"
    /\ Len(quickpick.items) = 2

\* show has finished, by a return or by an exception, after it created the list
Finished == showPc \in {"returned", "threw"} /\ Presented

\* C11: however show finishes once the list is created, the list is disposed of and none of the
\* three subscriptions is left; and a list dismissed before anything was resolved gives undefined
ReleasedOnFinish ==
    Finished =>
        /\ quickpick.state = "disposed"
        /\ listeners = {}
        /\ (pick.resolves # << >> /\ pick.resolves[1] = "onDidHide") => showResult = << >>

\* C11 happens: a list of remotes was dismissed while a setAsDefault() was under way, and show
\* returned undefined with everything released
DismissedAndReleased ==
    /\ showPc = "returned"
    /\ args.remotes # << >>
    /\ effects.setAsDefault # << >>
    /\ pick.resolves[1] = "onDidHide"
    /\ quickpick.state = "disposed"
    /\ listeners = {}
    /\ showResult = << >>

\* the item of the remote whose button was pressed first
FirstTriggered ==
    CHOOSE it \in {items[i] : i \in 1..Len(items)} : it.remote.name = effects.setAsDefault[1]

\* C12: the promise is settled once, by the event that fired first: when a button was pressed
\* before any dismissal or selection, show returns the item of the first button pressed
FirstEventDecides ==
    (showPc = "returned" /\ Presented) =>
        /\ pick.settled
        /\ showResult = pick.value
        /\ effects.setAsDefault # << >> => showResult = <<FirstTriggered>>

\* some setAsDefault() started from the list has finished, and its remote is persisted as default
Persisted == \E k \in 1..Len(pick.resolves) : pick.resolves[k] = "onDidTriggerItemButton"

\* C13: once a button press has persisted a remote as the default one, show returns the item of
\* that remote, never undefined and never another item
PersistedIsReturned ==
    (showPc = "returned" /\ Persisted) =>
        /\ showResult # << >>
        /\ showResult[1].kind = "remote"
        /\ showResult[1].remote.name = defaultRemote

\* the activation of a remote's item has ended, one way or the other
Activated ==
    /\ showResult # << >>
    /\ showResult[1].kind = "remote"
    /\ execute.pc \in {"done", "failed"}

\* C14: a lookup that fails leaves its field absent and never ends the activation: every
\* activation of a remote's item that ends has copied or opened the resource, once
LookupFailureIsAbsence ==
    Activated =>
        /\ execute.pc = "done"
        /\ Len(effects.copy) + Len(effects.open) = 1

\* the ref getUrlForFile is to name: the sha, else the branch under refs/heads, else HEAD
RefOf(r) ==
    IF r.sha # << >> THEN Slash \o r.sha
    ELSE IF r.branch # << >> THEN RefsHeads \o r.branch
    ELSE Slash \o HEAD

\* <browseBase>/+/<ref>/<path>, percent-encoded, then #<line> when a range is given
FileUrlOf(r) ==
    EncodeUrl(BaseUrl \o <<"/", "+">> \o RefOf(r) \o Slash \o r.fileName)
        \o (IF r.range # << >> THEN <<"#">> \o ToDecimal(r.range[1]) ELSE << >>)

\* C15: the URL of a file names the sha if one is given, else the branch, else HEAD, in the
\* form <browseBase>/+/<ref>/<path>, followed by #<line> exactly when a range is given
RefPrecedence ==
    (request.kind = "file" /\ url # << >>) => url[1] = FileUrlOf(request)

\* the candidate c, cut off the remainder r, is a name of names whose rest is found as a file
Wins(r, c, names) ==
    /\ c \in names
    /\ (validate = "false" \/ FileAfter(r, Len(c)) \in repository.files)

\* the first candidate tried that is a name of names, if there is one
FirstKnown(names) ==
    LET known == {k \in 1..Len(calls.has) : calls.has[k] \in names}
    IN  IF known = {} THEN 0 ELSE SetMin(known)

\* the scan under prefix was settled by the first candidate tried that is a name of names
DecidedByFirstKnown(prefix, names) ==
    LET r == RemainderAfter(prefix)
        k == FirstKnown(names)
    IN  (Resolved(prefix) /\ k # 0) =>
            /\ Len(calls.has) = k
            /\ result = IF Wins(r, calls.has[k], names)
                        THEN <<[uri |-> FileAfter(r, Len(calls.has[k])), startLine |-> startLine]>>
                        ELSE << >>

\* C16 as stated: the first candidate tried that is a known branch (tag) decides the outcome
\* alone, and no shorter candidate is tried after it
FirstKnownDecides ==
    /\ DecidedByFirstKnown(RefsHeads, RemoteBranchNames)
    /\ DecidedByFirstKnown(RefsTags, repository.tags)

\* the scan under prefix was settled by the first candidate tried that is a name of names and
\* whose rest is found as a file; without one, every candidate was tried and there is no result
DecidedByFirstFound(prefix, names) ==
    LET r == RemainderAfter(prefix)
        n == Len(calls.has)
    IN  (Resolved(prefix) /\ n > 0) =>
            /\ \A k \in 1..(n - 1) : ~Wins(r, calls.has[k], names)
            /\ IF Wins(r, calls.has[n], names)
               THEN result = <<[uri |-> FileAfter(r, Len(calls.has[n])), startLine |-> startLine]>>
               ELSE result = << >> /\ calls.has[n] = << >>

\* C16 as amended: the first candidate tried that is a known branch (tag) and whose rest is
\* found as a file wins; a known name whose rest is no file is passed over for shorter ones
FirstFoundWins ==
    /\ DecidedByFirstFound(RefsHeads, RemoteBranchNames)
    /\ DecidedByFirstFound(RefsTags, repository.tags)

\* C16 as amended happens: the longer known branch had no such file, the shorter one had
ShorterBranchFound ==
    /\ Resolved(RefsHeads)
    /\ Len(calls.toAbsoluteUri) = 2
    /\ FirstKnown(RemoteBranchNames) < Len(calls.has)
    /\ result # << >>
    /\ result[1].uri = FileAfter(RemainderAfter(RefsHeads), Len(calls.has[Len(calls.has)]))

\* the branch or tag scan was gone through
Scanned(prefix) == Resolved(prefix) /\ calls.has # << >>

\* C17: a path under /refs/tags/ resolves, with the known tags S, to what the branch check
\* gives for the same remainder under /refs/heads/ with the known remote branches S; the
\* branch scan itself is that branch check
TagCheckIsBranchCheck ==
    /\ Scanned(RefsTags) => result = BranchCheck(RemainderAfter(RefsTags), repository.tags)
    /\ Scanned(RefsHeads) => result = BranchCheck(RemainderAfter(RefsHeads), RemoteBranchNames)

\* C17 happens: under /refs/tags/ the longer known tag had no such file and the shorter one had
ShorterTagFound ==
    /\ Scanned(RefsTags)
    /\ Len(calls.toAbsoluteUri) = 2
    /\ calls.has[1] \in repository.tags
    /\ result # << >>
    /\ result = BranchCheck(RemainderAfter(RefsTags), repository.tags)

\* the loops are under way
Scanning == pc \in {"heads", "tags"}

\* the text the loop under way scans
ScanPath == Substr(MatchPath, IF pc = "heads" THEN Len(RefsHeads) ELSE Len(RefsTags))

\* the number of "/" in s
SlashCount(s) == Cardinality({i \in 1..Len(s) : s[i] = "/"})

\* one pass of a loop: index goes down, one candidate is tested, and the loop is left exactly
\* when a location is found or index has reached the start
OnePass ==
    Scanning =>
        /\ index' < index
        /\ Len(calls'.has) = Len(calls.has) + 1
        /\ Len(calls'.has) <= SlashCount(ScanPath) + 1
        /\ IF result' # << >> \/ index' <= 0
           THEN pc' = "done"
           ELSE pc' = pc

\* C18: every pass of the branch/tag loop lowers index and tests one candidate, the loop is
\* left at the first location found or once index <= 0, after at most one pass for each "/"
\* of the remainder and one more, and every call of getLocalInfoFromRemoteUri returns
ScanTerminates ==
    /\ [][OnePass]_vars
    /\ <>(pc = "done")

\* C18 happens: a scan of three passes, index going down to the start, returned undefined
ThreePasses ==
    /\ pc = "done"
    /\ Len(calls.has) = 3
    /\ index <= 0
    /\ result = << >>

\* the resources handed to provider.copy and provider.open, one after the other
Handed == effects.copy \o effects.open

\* the remote of the item activated is a Bitbucket one
OnBitbucket == showResult[1].remote.id \in {"bitbucket", "bitbucket-server"}

\* C19: a file resource is handed over as a Revision resource with the sha found only when it
\* names a branch or tag, the remote is a Bitbucket one and the repository answered with a sha;
\* in every other case it is handed over as it was given, and without a Bitbucket remote or
\* without a branch or tag nothing is looked up
RevisionOnlyForBitbucket ==
    (Activated /\ execute.pc = "done" /\ args.resource.type = "file") =>
        IF args.resource.branchOrTag # << >> /\ OnBitbucket
        THEN /\ effects.lookups = <<"getBranchesAndOrTags">>
             /\ Len(effects.answers) = 1
             /\ Handed = IF effects.answers[1] # << >>
                         THEN <<[args.resource EXCEPT !.type = "revision", !.sha = effects.answers[1]]>>
                         ELSE <<args.resource>>
        ELSE /\ effects.lookups = << >>
             /\ Handed = <<args.resource>>

\* C19 happens: for a file on a tag and a Bitbucket Server remote no sha was found, and the
\* file resource was handed over unchanged
NoShaNoRevision ==
    /\ Activated
    /\ execute.pc = "done"
    /\ args.resource.type = "file"
    /\ showResult[1].remote.id = "bitbucket-server"
    /\ effects.answers = << << >> >>
    /\ Handed = <<args.resource>>

\* the lookups made so far and their answers are in the order of lines 54-61
LookupsInOrder ==
    IF args.resource.branch # << >>
    THEN effects.lookups = << >>
    ELSE \/ effects.lookups = << >> /\ execute.pc = "idle"
         \/ /\ effects.lookups = <<"getDefaultBranchName">>
            /\ Len(effects.answers) = 1 =>
                    (effects.answers[1] # << >> \/ ~showResult[1].remote.hasApi)
         \/ /\ effects.lookups = <<"getDefaultBranchName", "getDefaultBranch">>
            /\ effects.answers # << >>
            /\ effects.answers[1] = << >>
            /\ showResult[1].remote.hasApi

\* the base branch a pull request is created against: the one given, else the last one found
BaseBranch ==
    IF args.resource.branch # << >> THEN args.resource.branch
    ELSE effects.answers[Len(effects.answers)]

\* C20: for a pull request to create, no lookup is made when a base branch is given; else
\* getDefaultBranchName is asked first, and the provider's getDefaultBranch only after that
\* answered nothing and when the provider has an API; copy or open is called only once the
\* lookups have answered, once, with the base branch found: copy if clipboard is set, else open
PullRequestLookupOrder ==
    (showResult # << >> /\ showResult[1].kind = "remote" /\ args.resource.type = "createPullRequest") =>
        /\ LookupsInOrder
        /\ Len(Handed) = (IF execute.pc = "done" THEN 1 ELSE 0)
        /\ execute.pc = "done" =>
                /\ Len(effects.answers) = Len(effects.lookups)
                /\ Len(effects.copy) = (IF showResult[1].clipboard THEN 1 ELSE 0)
                /\ Handed[1].branch = BaseBranch
                /\ Handed[1].remote = <<showResult[1].remote.name>>

\* C20 happens: no base branch given, the repository knew no default branch, the provider has
\* an API and named one, and the pull request was opened against it
ProviderBranchOpened ==
    /\ args.resource.type = "createPullRequest"
    /\ execute.pc = "done"
    /\ effects.lookups = <<"getDefaultBranchName", "getDefaultBranch">>
    /\ effects.answers = << << >>, <<"d">> >>
    /\ Len(effects.open) = 1
    /\ effects.open[1].branch = <<"d">>

====
